---- MODULE Spec2Model ----
(***************************************************************************)
(* Model of the path sandbox, the name sanitizer and the resumable upload  *)
(* protocol of the file manager (src/app/main.py).                         *)
(*                                                                         *)
(* Strings are sequences of one-character tokens.  A file-system path is   *)
(* a sequence of names, a name is a string without "/".  The tokens are    *)
(*   "/"  the path separator            "."  a dot                         *)
(*   "^"  one control character (a byte below 0x20, or 0x7F)               *)
(*   "1" "2"  the canonical text of a UUID, "I" another accepted spelling  *)
(*            of UUID "1" (upper case, braces, urn: prefix)                *)
(*   "j" "p" "u"  the words json, part, uploads                            *)
(*   any other token is an ordinary letter.                                *)
(* File contents are sequences of bytes; byte 0 is what a hole reads as.   *)
(***************************************************************************)
EXTENDS Integers, Sequences, FiniteSets, TLC

VARIABLES fs,      \* the file system: absolute path -> node
          last,    \* the last request's response
          arg,     \* the argument a pure function is applied to
          sent,    \* per upload id: the chunks written to its staging file, in call order
                   \* (kept by the handlers that run as one step)
          done,    \* ids whose complete succeeded and that were not re-initialised since
          proc     \* per request handler running step by step: its position and locals

vars == <<fs, last, arg, sent, done, proc>>

-----------------------------------------------------------------------------
(* Bounds *)

MaxSegs == 3        \* segments of a client path in the sandbox specification
MaxNameLen == 4     \* length of a client file name in the sanitizer specification
MaxFileLen == 3     \* largest staging file the chunk writer is driven to
MaxChunks == 2      \* chunk calls recorded per upload id

-----------------------------------------------------------------------------
(* Strings and pure paths (pathlib.PurePosixPath) *)

Sep == "/"
Dot == "."
Ctl == "^"
DotDot == <<Dot, Dot>>

RECURSIVE LStrip(_)
\* str.lstrip("/")
LStrip(s) == IF s # <<>> /\ Head(s) = Sep THEN LStrip(Tail(s)) ELSE s

RECURSIVE Split(_)
\* s.split("/"): the components between separators, empty ones included
Split(s) ==
  IF s = <<>> THEN << <<>> >>
  ELSE LET r == Split(Tail(s)) IN
       IF Head(s) = Sep THEN << <<>> >> \o r
       ELSE << <<Head(s)>> \o Head(r) >> \o Tail(r)

\* The parts pathlib keeps: empty components and "." are dropped, ".." stays
Parts(s) == SelectSeq(Split(s), LAMBDA c : c # <<>> /\ c # <<Dot>>)

\* Path(s)
PurePath(s) == [abs |-> (s # <<>> /\ Head(s) = Sep), parts |-> Parts(s)]

\* Path(s).name: the final part, "" when there is none
PathName(P) == IF P.parts = <<>> THEN <<>> ELSE P.parts[Len(P.parts)]

\* P / s: an absolute right operand replaces the left one
PathJoin(P, s) ==
  LET Q == PurePath(s) IN
  IF Q.abs THEN Q ELSE [abs |-> P.abs, parts |-> P.parts \o Q.parts]

RECURSIVE JoinParts(_)
JoinParts(ps) ==
  IF ps = <<>> THEN <<>>
  ELSE IF Len(ps) = 1 THEN ps[1]
  ELSE ps[1] \o <<Sep>> \o JoinParts(Tail(ps))

\* str(P)
PathStr(P) ==
  IF P.abs THEN <<Sep>> \o JoinParts(P.parts)
  ELSE IF P.parts = <<>> THEN <<Dot>> ELSE JoinParts(P.parts)

-----------------------------------------------------------------------------
(* The file system *)

Dir == [kind |-> "dir", data |-> <<>>, meta |-> <<>>, target |-> <<>>]
File(d) == [kind |-> "file", data |-> d, meta |-> <<>>, target |-> <<>>]
JsonFile(m) == [kind |-> "file", data |-> <<>>, meta |-> <<m>>, target |-> <<>>]
Link(t) == [kind |-> "link", data |-> <<>>, meta |-> <<>>, target |-> t]

Parent(p) == IF p = <<>> THEN <<>> ELSE SubSeq(p, 1, Len(p) - 1)

\* lstat: the entry itself, links not followed
IsLink(f, p) == p \in DOMAIN f /\ f[p].kind = "link"

RECURSIVE Walk(_, _, _)
\* os.path.realpath, non-strict: "cur" is resolved, "rest" are the names
\* still to walk.  ".." drops the last resolved name, a link is replaced by
\* its (absolute) target, a name that does not exist is kept as it is.
Walk(f, cur, rest) ==
  IF rest = <<>> THEN cur
  ELSE LET name == Head(rest)
           np == Append(cur, name)
       IN IF name = DotDot THEN Walk(f, Parent(cur), Tail(rest))
          ELSE IF IsLink(f, np) THEN Walk(f, <<>>, f[np].target \o Tail(rest))
          ELSE Walk(f, np, Tail(rest))

\* Path.resolve() of an absolute path given by its parts
Realpath(f, parts) == Walk(f, <<>>, parts)

\* Path.exists(), is_dir(), is_file(): stat, links followed
Exists(f, p) == LET rp == Realpath(f, p) IN rp \in DOMAIN f
IsDir(f, p) == LET rp == Realpath(f, p) IN rp \in DOMAIN f /\ f[rp].kind = "dir"
StatNode(f, p) == f[Realpath(f, p)]

-----------------------------------------------------------------------------
(* Configuration *)

\* ROOT_DIR, canonical: /r
ROOT_DIR == << <<"r">> >>
\* UPLOADS_DIR = ROOT_DIR / ".uploads"
UPLOADS_DIR == ROOT_DIR \o << <<Dot, "u">> >>
\* a sibling of Root whose name has Root's name as a string prefix: /r2
SIBLING == << <<"r", "2">> >>

-----------------------------------------------------------------------------
(* PathSandbox *)

\* abs_path.relative_to(base) succeeds: base's parts are a prefix of p's parts
RelativeTo_strprefix(p, base) ==
  LET sp == PathStr([abs |-> TRUE, parts |-> p])
      sb == PathStr([abs |-> TRUE, parts |-> base])
  IN Len(sp) >= Len(sb) /\ SubSeq(sp, 1, Len(sb)) = sb

RelativeTo(p, base) ==
  Len(p) >= Len(base) /\ SubSeq(p, 1, Len(base)) = base

\* resolve_safe_path: ok, or HTTP 400 "Invalid path"
resolve_safe_path(f, relative_path) ==
  LET safe_rel == LStrip(IF relative_path = <<>> THEN <<Dot>> ELSE relative_path)
      joined == PathJoin([abs |-> TRUE, parts |-> ROOT_DIR], safe_rel)
      abs_path == Realpath(f, joined.parts)
  IN IF RelativeTo(abs_path, ROOT_DIR)
     THEN [ok |-> TRUE, path |-> abs_path]
     ELSE [ok |-> FALSE, path |-> <<>>]

-----------------------------------------------------------------------------
(* NameSanitizer *)

\* re.sub(r"[\x00-\x1f\x7f]+", "", n)
StripControl(n) == SelectSeq(n, LAMBDA c : c # Ctl)

safe_filename(name) ==
  IF name = <<>> THEN <<>> ELSE StripControl(PathName(PurePath(name)))

-----------------------------------------------------------------------------
(* Sizes.  totalSize is an unbounded integer in the program; it is kept as  *)
(* g * 2^30 + b with 0 <= b < 2^30, so that 20 GiB and its neighbours are   *)
(* exact.                                                                   *)

GiB == 1024 * 1024 * 1024
Small(n) == [g |-> 0, b |-> n]
SizeLeq(x, y) == x.g < y.g \/ (x.g = y.g /\ x.b <= y.b)
SizeGt(x, y) == ~SizeLeq(x, y)
SizeGeq(x, y) == SizeLeq(y, x)

\* MAX_UPLOAD_BYTES = 20 * 1024 ** 3
MAX_UPLOAD_BYTES == [g |-> 20, b |-> 0]

\* total_size <= 0
TotalSizeNotPositive(t) == SizeLeq(t, Small(0))

\* total_size > MAX_UPLOAD_BYTES
TotalSizeTooLarge_geq(t) == SizeGeq(t, MAX_UPLOAD_BYTES)

TotalSizeTooLarge(t) == SizeGt(t, MAX_UPLOAD_BYTES)

-----------------------------------------------------------------------------
(* Upload ids *)

\* the canonical UUIDs
UploadIds == {"1", "2"}
UuidSpellings == {"1", "2", "I"}
Canonical(c) == IF c = "I" THEN "1" ELSE c

\* validate_upload_id: str(uuid.UUID(upload_id)), or HTTP 400 "Invalid uploadId"
validate_upload_id(s) ==
  IF Len(s) = 1 /\ s[1] \in UuidSpellings
  THEN [ok |-> TRUE, id |-> Canonical(s[1])]
  ELSE [ok |-> FALSE, id |-> ""]

\* UPLOADS_DIR / (upload_id + ".json"), UPLOADS_DIR / (upload_id + ".part")
meta_path(id) == UPLOADS_DIR \o << <<id, Dot, "j">> >>
part_path(id) == UPLOADS_DIR \o << <<id, Dot, "p">> >>

-----------------------------------------------------------------------------
(* File operations *)

Put(f, p, node) == [q \in DOMAIN f \cup {p} |-> IF q = p THEN node ELSE f[q]]
Remove(f, p) == [q \in DOMAIN f \ {p} |-> f[q]]

\* os.open(path, O_WRONLY | O_CREAT [| O_TRUNC]) can succeed: the final link
\* is followed, the target is not a directory and its parent is a directory
CanOpenForWrite(f, p) ==
  LET rp == Realpath(f, p) IN
  /\ rp # <<>>
  /\ ~(rp \in DOMAIN f /\ f[rp].kind = "dir")
  /\ Parent(rp) \in DOMAIN f /\ f[Parent(rp)].kind = "dir"

\* open_atomic(path, "w"/"wb") followed by writing "node": creates or truncates
OpenAtomicWrite(f, p, node) == Put(f, Realpath(f, p), node)

Max(a, b) == IF a >= b THEN a ELSE b

\* open("r+b"); seek(offset); write(data): bytes are overwritten in place, the
\* file grows when the write ends beyond its end, a hole reads as zero bytes,
\* and nothing changes when no byte is written
WriteAt_append(d, offset, data) == d \o data

WriteAt_trunc(d, offset, data) ==
  [i \in 1..(offset + Len(data)) |-> IF i > offset THEN data[i - offset] ELSE 0]

WriteAt(d, offset, data) ==
  IF data = <<>> THEN d
  ELSE [i \in 1..Max(Len(d), offset + Len(data)) |->
          IF i > offset /\ i <= offset + Len(data) THEN data[i - offset]
          ELSE IF i <= Len(d) THEN d[i] ELSE 0]

\* f.tell() after the writes
Tell(offset, data) == offset + Len(data)

\* os.replace(src, dst): rename(2).  It fails when dst is a directory (src is
\* a file) or dst's parent is not a directory.
CanReplace(f, src, dst) ==
  /\ src \in DOMAIN f
  /\ dst # <<>>
  /\ Parent(dst) \in DOMAIN f /\ f[Parent(dst)].kind = "dir"
  /\ ~(dst \in DOMAIN f /\ f[dst].kind = "dir")

Replace(f, src, dst) ==
  IF src = dst THEN f ELSE Put(Remove(f, src), dst, f[src])

-----------------------------------------------------------------------------
(* Responses *)

Resp(op, id, code, detail, val, out) ==
  [op |-> op, id |-> id, code |-> code, detail |-> detail, val |-> val, out |-> out]

NoResp == Resp("none", "", 0, "", 0, <<>>)

-----------------------------------------------------------------------------
(* Session store: POST /api/upload/init *)

\* json.load(meta_path) succeeds: a regular file holding a JSON record
HasJson(f, p) == Exists(f, p) /\ StatNode(f, p).kind = "file" /\ StatNode(f, p).meta # <<>>
LoadJson(f, p) == StatNode(f, p).meta[1]

\* lines 258-265: create the empty staging file unless something is there
EnsurePart_always(f, id) ==
  IF CanOpenForWrite(f, part_path(id))
  THEN [ok |-> TRUE, fs |-> OpenAtomicWrite(f, part_path(id), File(<<>>))]
  ELSE [ok |-> FALSE, fs |-> f]

EnsurePart(f, id) ==
  IF Exists(f, part_path(id)) THEN [ok |-> TRUE, fs |-> f]
  ELSE IF CanOpenForWrite(f, part_path(id))
       THEN [ok |-> TRUE, fs |-> OpenAtomicWrite(f, part_path(id), File(<<>>))]
       ELSE [ok |-> FALSE, fs |-> f]

\* "upload_id" is the client's uploadId ("" when absent), "gen" the uuid4 drawn
\* when it is absent
api_upload_init(f, path, filename, total_size, upload_id, gen) ==
  LET v == IF upload_id # <<>> THEN validate_upload_id(upload_id)
                               ELSE [ok |-> TRUE, id |-> gen]
      id == v.id
      name == safe_filename(filename)
      parent == resolve_safe_path(f, path)
      meta == [uploadId |-> id, path |-> path, filename |-> name, totalSize |-> total_size]
      f1 == OpenAtomicWrite(f, meta_path(id), JsonFile(meta))
      part == EnsurePart(f1, id)
      Fail(code, detail) == [fs |-> f, resp |-> Resp("init", id, code, detail, 0, <<>>)]
  IN IF ~v.ok THEN Fail(400, "Invalid uploadId")
     ELSE IF name = <<>> THEN Fail(400, "Missing filename")
     ELSE IF TotalSizeNotPositive(total_size) THEN Fail(400, "Invalid totalSize")
     ELSE IF TotalSizeTooLarge(total_size) THEN Fail(400, "Max upload size")
     ELSE IF ~parent.ok THEN Fail(400, "Invalid path")
     ELSE IF ~IsDir(f, parent.path) THEN Fail(400, "Parent directory invalid")
     ELSE IF ~RelativeTo(Realpath(f, meta_path(id)), UPLOADS_DIR)
          THEN Fail(500, "Server upload path invalid")
     ELSE IF ~CanOpenForWrite(f, meta_path(id)) THEN Fail(500, "Internal Server Error")
     ELSE IF ~part.ok
          THEN [fs |-> f1, resp |-> Resp("init", id, 500, "Failed to create upload part file", 0, <<>>)]
     ELSE [fs |-> part.fs, resp |-> Resp("init", id, 200, "ok", 0, <<>>)]

-----------------------------------------------------------------------------
(* Chunk writer: POST /api/upload/chunk *)

\* lines 302-314: the write into the staging file and the value of f.tell()
WriteChunk(f, id, offset, data) ==
  LET rp == Realpath(f, part_path(id)) IN
  Put(f, rp, [f[rp] EXCEPT !.data = WriteAt(f[rp].data, offset, data)])

api_upload_chunk(f, uploadId, offset, data) ==
  LET v == validate_upload_id(uploadId)
      id == v.id
      part == EnsurePart(f, id)
      Fail(g, code, detail) == [fs |-> g, resp |-> Resp("chunk", id, code, detail, 0, <<>>)]
  IN IF ~v.ok THEN Fail(f, 400, "Invalid uploadId")
     ELSE IF ~Exists(f, meta_path(id)) THEN Fail(f, 404, "uploadId not found")
     ELSE IF ~RelativeTo(Realpath(f, meta_path(id)), UPLOADS_DIR)
          THEN Fail(f, 400, "Invalid uploadId")
     ELSE IF ~HasJson(f, meta_path(id)) THEN Fail(f, 500, "Internal Server Error")
     ELSE IF Exists(f, part_path(id)) /\ IsLink(f, part_path(id))
          THEN Fail(f, 400, "Corrupt upload state")
     ELSE IF ~part.ok THEN Fail(f, 500, "Failed to write chunk")
     \* the HTTPException(400, "Invalid offset") is raised inside the try block
     \* and caught by its "except Exception"
     ELSE IF offset < 0 THEN Fail(part.fs, 500, "Failed to write chunk")
     ELSE IF StatNode(part.fs, part_path(id)).kind # "file"
          THEN Fail(part.fs, 500, "Failed to write chunk")
     ELSE [fs |-> WriteChunk(part.fs, id, offset, data),
           resp |-> Resp("chunk", id, 200, "ok", Tell(offset, data), <<>>)]

-----------------------------------------------------------------------------
(* GET /api/upload/status *)

\* part_path.stat().st_size
StSize(f, p) == Len(StatNode(f, p).data)

api_upload_status(f, uploadId) ==
  LET v == validate_upload_id(uploadId)
      id == v.id
      Fail(code, detail) == Resp("status", id, code, detail, 0, <<>>)
  IN IF ~v.ok THEN Fail(400, "Invalid uploadId")
     ELSE IF ~Exists(f, meta_path(id)) THEN Fail(404, "uploadId not found")
     ELSE IF ~HasJson(f, meta_path(id)) THEN Fail(500, "Internal Server Error")
     ELSE Resp("status", id, 200, "ok",
               IF Exists(f, part_path(id)) THEN StSize(f, part_path(id)) ELSE 0,
               <<>>)

-----------------------------------------------------------------------------
(* Finalizer: POST /api/upload/complete *)

\* received != total
SizeMismatch_short(received, total) == ~SizeGeq(Small(received), total)

SizeMismatch_leq(received, total) == SizeLeq(Small(received), total)

SizeMismatch(received, total) == Small(received) # total

\* str(Path(meta["path"]) / filename)
DestString(meta, filename) == PathStr(PathJoin(PurePath(meta.path), filename))

\* "unlinkFails": meta_path.unlink() raises (the exception is swallowed)
api_upload_complete(f, upload_id, unlinkFails) ==
  LET v == validate_upload_id(upload_id)
      id == v.id
      meta == LoadJson(f, meta_path(id))
      filename == safe_filename(meta.filename)
      dest == resolve_safe_path(f, DestString(meta, filename))
      f1 == Replace(f, part_path(id), dest.path)
      f2 == IF unlinkFails \/ meta_path(id) \notin DOMAIN f1 THEN f1
            ELSE Remove(f1, meta_path(id))
      Fail(code, detail) == [fs |-> f, resp |-> Resp("complete", id, code, detail, 0, <<>>)]
  IN IF upload_id = <<>> THEN Fail(400, "Missing uploadId")
     ELSE IF ~v.ok THEN Fail(400, "Invalid uploadId")
     ELSE IF ~Exists(f, meta_path(id)) THEN Fail(404, "uploadId not found")
     ELSE IF ~HasJson(f, meta_path(id)) THEN Fail(500, "Internal Server Error")
     ELSE IF ~Exists(f, part_path(id)) \/ IsLink(f, part_path(id))
          THEN Fail(404, "part file not found")
     ELSE IF SizeMismatch(StSize(f, part_path(id)), meta.totalSize)
          THEN Fail(400, "Incomplete upload")
     ELSE IF filename = <<>> THEN Fail(400, "Invalid filename in upload metadata")
     ELSE IF ~dest.ok THEN Fail(400, "Invalid path")
     ELSE IF Exists(f, dest.path) /\ IsLink(f, dest.path)
          THEN Fail(400, "Refusing to overwrite symlink")
     ELSE IF ~CanReplace(f, part_path(id), dest.path)
          THEN Fail(500, "Failed to finalize upload")
     ELSE [fs |-> f2, resp |-> Resp("complete", id, 200, "ok", 0, dest.path)]

-----------------------------------------------------------------------------
(* Initial states: the directories and symbolic links under and beside Root *)

\* /r, /r/.u and /r/a are directories, /r/b is a file, /r/k links to /r/a,
\* /r/l links to the sibling /r2, which holds the file /r2/s
BaseFs ==
  LET R == ROOT_DIR IN
  ( <<>> :> Dir ) @@ ( R :> Dir ) @@ ( UPLOADS_DIR :> Dir )
  @@ ( R \o << <<"a">> >> :> Dir )
  @@ ( R \o << <<"b">> >> :> File(<<2, 2>>) )
  @@ ( R \o << <<"k">> >> :> Link(R \o << <<"a">> >>) )
  @@ ( R \o << <<"l">> >> :> Link(SIBLING) )
  @@ ( SIBLING :> Dir )
  @@ ( SIBLING \o << <<"s">> >> :> File(<<2>>) )

\* what occupies /r/a/f: nothing, a file, a directory, or a link to a file in
\* Root, to a file outside Root, or to a name that does not exist
DEST == ROOT_DIR \o << <<"a">>, <<"f">> >>
Arrangements ==
  {BaseFs} \cup
  { Put(BaseFs, DEST, n) :
      n \in { File(<<2>>), Dir,
              Link(ROOT_DIR \o << <<"b">> >>),
              Link(SIBLING \o << <<"s">> >>),
              Link(ROOT_DIR \o << <<"n">> >>) } }

\* the handlers that are followed step by step, and one that is not running
Procs == {"i", "c1", "c2", "f"}
Idle == [pc |-> "idle"]

NoSession ==
  /\ last = NoResp
  /\ arg = <<>>
  /\ sent = [i \in UploadIds |-> <<>>]
  /\ done = {}
  /\ proc = [p \in Procs |-> Idle]

Init == fs \in Arrangements /\ NoSession

-----------------------------------------------------------------------------
(* Requests of the upload protocol *)

\* a uuid4 does not repeat an id in use
Fresh(id) ==
  /\ meta_path(id) \notin DOMAIN fs
  /\ part_path(id) \notin DOMAIN fs
  /\ id \notin done

\* the request created the staging file of "id": its chunk history starts empty
NewStaging(f, g, id) == part_path(id) \notin DOMAIN f /\ part_path(id) \in DOMAIN g

InitCall(path, filename, total, uid, gen) ==
  /\ uid = <<>> => Fresh(gen)
  /\ \E r \in {api_upload_init(fs, path, filename, total, uid, gen)} :
     /\ fs' = r.fs
     /\ last' = r.resp
     /\ done' = IF r.resp.code = 200 THEN done \ {r.resp.id} ELSE done
     /\ sent' = IF NewStaging(fs, r.fs, r.resp.id)
                THEN [sent EXCEPT ![r.resp.id] = <<>>] ELSE sent
  /\ UNCHANGED <<arg, proc>>

ChunkCall(uid, offset, data) ==
  /\ offset + Len(data) <= MaxFileLen
  /\ \E r \in {api_upload_chunk(fs, uid, offset, data)} :
     LET id == r.resp.id
         before == IF NewStaging(fs, r.fs, id) THEN <<>> ELSE sent[id]
     IN
     /\ id \in UploadIds => Len(before) < MaxChunks
     /\ fs' = r.fs
     /\ last' = r.resp
     /\ sent' = IF id \notin UploadIds THEN sent
                ELSE IF r.resp.code = 200
                THEN [sent EXCEPT ![id] = Append(before, [offset |-> offset, data |-> data])]
                ELSE [sent EXCEPT ![id] = before]
  /\ UNCHANGED <<arg, done, proc>>

StatusCall(uid) ==
  /\ last' = api_upload_status(fs, uid)
  /\ UNCHANGED <<fs, arg, sent, done, proc>>

CompleteCall(uid, unlinkFails) ==
  /\ \E r \in {api_upload_complete(fs, uid, unlinkFails)} :
     /\ fs' = r.fs
     /\ last' = r.resp
     /\ done' = IF r.resp.code = 200 THEN done \cup {r.resp.id} ELSE done
  /\ UNCHANGED <<arg, sent, proc>>

-----------------------------------------------------------------------------
(* The protocol over every arrangement, one-byte chunks *)

InitPaths == { <<"a">>, <<"l">>, <<"n">> }
InitNames == { <<>>, <<"f">>, <<Ctl, Dot, Dot>>, <<Dot, Ctl>>, <<"x", Sep, "a">> }
InitTotals == { [g |-> -1, b |-> GiB - 1], Small(0), Small(1),
                MAX_UPLOAD_BYTES, [g |-> 20, b |-> 1] }
InitRawIds == { <<>>, <<"1">>, <<"I">>, <<"x">> }
GenIds == {"1"}
RawIds == { <<>>, <<"1">>, <<"x">> }

InitReq(path, filename, total, uid) ==
  [path |-> path, filename |-> filename, total |-> total, uid |-> uid]

\* the request init(path="a", filename="f", totalSize=1, uploadId="1") and
\* its variations in one field
InitRequests ==
  { InitReq(p, <<"f">>, Small(1), <<"1">>) : p \in InitPaths }
  \cup { InitReq(<<"a">>, n, Small(1), <<"1">>) : n \in InitNames }
  \cup { InitReq(<<"a">>, <<"f">>, t, <<"1">>) : t \in InitTotals }
  \cup { InitReq(<<"a">>, <<"f">>, Small(1), u) : u \in InitRawIds }

ChunkReq(uid, offset, data) == [uid |-> uid, offset |-> offset, data |-> data]

ChunkRequests ==
  { ChunkReq(<<"1">>, o, <<1>>) : o \in {-1, 0, 1} }
  \cup { ChunkReq(u, 0, <<1>>) : u \in RawIds }

InitStep == \E r \in InitRequests, gen \in GenIds :
  InitCall(r.path, r.filename, r.total, r.uid, gen)

ChunkStep == \E r \in ChunkRequests : ChunkCall(r.uid, r.offset, r.data)

StatusStep == \E uid \in RawIds : StatusCall(uid)

CompleteStep == \E uid \in RawIds, unlinkFails \in BOOLEAN :
  CompleteCall(uid, unlinkFails)

Next == InitStep \/ ChunkStep \/ StatusStep \/ CompleteStep

Spec == Init /\ [][Next]_vars

-----------------------------------------------------------------------------
(* The chunk writer: every chunk sequence of one session, destination free *)

Offsets == (-1)..MaxFileLen
ChunkData == { <<>>, <<1>>, <<2>> }

InitChunks == fs = BaseFs /\ NoSession

\* the client does not use the id again once its upload is complete
InitStepC == \E total \in {Small(1), Small(2)} :
  /\ done = {}
  /\ InitCall(<<"a">>, <<"f">>, total, <<"1">>, "1")

ChunkStepC == \E offset \in Offsets, data \in ChunkData :
  ChunkCall(<<"1">>, offset, data)

StatusStepC == StatusCall(<<"1">>)

CompleteStepC == \E unlinkFails \in BOOLEAN : CompleteCall(<<"1">>, unlinkFails)

NextChunks == InitStepC \/ ChunkStepC \/ StatusStepC \/ CompleteStepC

SpecChunks == InitChunks /\ [][NextChunks]_vars

-----------------------------------------------------------------------------
(* The pure functions on their own *)

Segs == { <<>>, <<Dot>>, DotDot, <<"r">>, <<"r", "2">>, <<"a">>, <<"f">>,
          <<"k">>, <<"l">>, <<"s">>, <<"n">> }
\* client paths: up to MaxSegs segments joined by "/"
ClientPaths ==
  UNION { { JoinParts(ps) : ps \in [1..n -> Segs] } : n \in 1..MaxSegs }

NameChars == {"a", Dot, Sep, Ctl}
\* client file names: every string of up to MaxNameLen characters
ClientNames == UNION { [1..n -> NameChars] : n \in 0..MaxNameLen }

InitFn ==
  /\ fs \in Arrangements
  /\ arg \in ClientPaths \cup ClientNames
  /\ last = NoResp
  /\ sent = [i \in UploadIds |-> <<>>]
  /\ done = {}
  /\ proc = [p \in Procs |-> Idle]

ResolveStep ==
  /\ last = NoResp /\ arg \in ClientPaths
  /\ LET r == resolve_safe_path(fs, arg) IN
     last' = Resp("resolve", "", IF r.ok THEN 200 ELSE 400,
                  IF r.ok THEN "ok" ELSE "Invalid path", 0, r.path)
  /\ UNCHANGED <<fs, arg, sent, done, proc>>

SanitizeStep ==
  /\ last = NoResp /\ arg \in ClientNames
  /\ last' = Resp("sanitize", "", 200, "ok", 0, safe_filename(arg))
  /\ UNCHANGED <<fs, arg, sent, done, proc>>

NextFn == ResolveStep \/ SanitizeStep

SpecFn == InitFn /\ [][NextFn]_vars

-----------------------------------------------------------------------------
(* Two sessions side by side; destinations in /r/a and in the staging      *)
(* directory itself                                                        *)

\* the file names of a session's metadata record and staging file
MetaName(id) == <<id, Dot, "j">>
PartName(id) == <<id, Dot, "p">>

\* session "1" names /r/a/f or a file of session "2" as its destination,
\* session "2" names /r/a/f
SessionRequests ==
  { InitReq(<<"a">>, <<"f">>, Small(1), <<"1">>),
    InitReq(<<Dot, "u">>, PartName("2"), Small(1), <<"1">>),
    InitReq(<<Dot, "u">>, MetaName("2"), Small(1), <<"1">>),
    InitReq(<<"a">>, <<"f">>, Small(1), <<"2">>) }

InitSessions == fs = BaseFs /\ NoSession

InitStepS == \E r \in SessionRequests :
  InitCall(r.path, r.filename, r.total, r.uid, "1")

ChunkStepS == \E id \in UploadIds : ChunkCall(<<id>>, 0, <<1>>)

StatusStepS == \E id \in UploadIds : StatusCall(<<id>>)

CompleteStepS == \E id \in UploadIds : CompleteCall(<<id>>, FALSE)

NextSessions == InitStepS \/ ChunkStepS \/ StatusStepS \/ CompleteStepS

SpecSessions == InitSessions /\ [][NextSessions]_vars

-----------------------------------------------------------------------------
(* Startup: the choice of Root from the environment *)

\* an environment variable: unset, or set to a string
Unset == [set |-> FALSE, val |-> <<>>]
SetTo(s) == [set |-> TRUE, val |-> s]

\* os.getenv(name, default)
Getenv(e, default) == IF e.set THEN e.val ELSE default

\* Path(s).resolve(): a relative path is taken from the working directory
Resolve(f, cwd, s) ==
  LET P == PurePath(s) IN
  IF P.abs THEN Realpath(f, P.parts) ELSE Realpath(f, cwd \o P.parts)

\* "./data"
DefaultData == <<Dot, Sep, "d">>

\* get_root_dir: the resolved path, <<>> being the file system's root "/"
get_root_dir(f, cwd, root, default) ==
  LET env_root == Getenv(root, <<>>)
      fallback == Resolve(f, cwd, Getenv(default, DefaultData))
      r == Resolve(f, cwd, env_root)
  IN IF env_root # <<>>
     THEN IF r = <<>> THEN fallback ELSE r
     ELSE fallback

\* settings: unset, empty, "/", "/r", "d", ".", "..", and paths that lead to
\* "/" or to /r through "..", directly or over the links /r/l and /r/k
EnvStrings ==
  { <<>>, <<Sep>>, <<Sep, "r">>, <<"d">>, <<Dot>>, DotDot,
    <<Sep, "r", Sep>> \o DotDot,
    <<Sep, "r", Sep, "l", Sep>> \o DotDot,
    <<Sep, "r", Sep, "k", Sep>> \o DotDot }
EnvSettings == {Unset} \cup { SetTo(s) : s \in EnvStrings }
WorkingDirs == { <<>>, ROOT_DIR, ROOT_DIR \o << <<"a">> >> }

InitRoot ==
  /\ fs \in Arrangements
  /\ arg \in [root : EnvSettings, default : EnvSettings, cwd : WorkingDirs]
  /\ last = NoResp
  /\ sent = [i \in UploadIds |-> <<>>]
  /\ done = {}
  /\ proc = [p \in Procs |-> Idle]

RootStep ==
  /\ last = NoResp
  /\ last' = Resp("root", "", 200, "ok", 0,
                  get_root_dir(fs, arg.cwd, arg.root, arg.default))
  /\ UNCHANGED <<fs, arg, sent, done, proc>>

NextRoot == RootStep

SpecRoot == InitRoot /\ [][NextRoot]_vars

-----------------------------------------------------------------------------
(* The handlers step by step: one action per system call, so that requests *)
(* can overlap and the process can die between two calls.  A handler's     *)
(* open file is the path its inode is at ("fd"); a rename moves it along.  *)

\* the open file of a handler that has none, or whose file lost its name
NoFile == << <<Sep>> >>

Goto(p, rec) == [proc EXCEPT ![p] = rec]
Running(p, pc) == proc[p].pc = pc

\* rename(from, to) or unlink(from) as the open files see it: a file open at
\* "from" is now at "to", a file open at "to" has lost its name
MoveFd(pr, from, to) ==
  [q \in DOMAIN pr |->
     IF pr[q].pc = "idle" THEN pr[q]
     ELSE IF pr[q].fd = from THEN [pr[q] EXCEPT !.fd = to]
     ELSE IF pr[q].fd = to THEN [pr[q] EXCEPT !.fd = NoFile]
     ELSE pr[q]]

\* the answer ends the handler p
Respond(p, r) == last' = r /\ proc' = Goto(p, Idle)

\* lines 224-255 of init: every check before the metadata file is opened
InitBegin(p, path, filename, total, uid, gen) ==
  /\ Running(p, "idle")
  /\ uid = <<>> => Fresh(gen)
  /\ LET r == api_upload_init(fs, path, filename, total, uid, gen).resp
         meta == [uploadId |-> r.id, path |-> path,
                  filename |-> safe_filename(filename), totalSize |-> total]
     IN IF r.code = 400 \/ r.detail = "Server upload path invalid"
        THEN last' = r /\ proc' = proc
        ELSE /\ proc' = Goto(p, [pc |-> "open_meta", id |-> r.id, meta |-> meta,
                                 fd |-> NoFile])
             /\ last' = last
  /\ UNCHANGED <<fs, arg, sent, done>>

\* line 256, open_atomic: os.open(meta_path, O_WRONLY | O_CREAT | O_TRUNC)
InitOpenMeta(p) ==
  /\ Running(p, "open_meta")
  /\ LET id == proc[p].id IN
     IF CanOpenForWrite(fs, meta_path(id))
     THEN /\ fs' = OpenAtomicWrite(fs, meta_path(id), File(<<>>))
          /\ proc' = Goto(p, [proc[p] EXCEPT !.pc = "dump_meta",
                                             !.fd = Realpath(fs, meta_path(id))])
          /\ last' = last
     ELSE /\ Respond(p, Resp("init", id, 500, "Internal Server Error", 0, <<>>))
          /\ fs' = fs
  /\ UNCHANGED <<arg, sent, done>>

\* line 257 and the end of the with block: the record reaches the file
InitDumpMeta(p) ==
  /\ Running(p, "dump_meta")
  /\ fs' = IF proc[p].fd = NoFile THEN fs
           ELSE Put(fs, proc[p].fd, JsonFile(proc[p].meta))
  /\ proc' = Goto(p, [proc[p] EXCEPT !.pc = "part_exists", !.fd = NoFile])
  /\ UNCHANGED <<last, arg, sent, done>>

\* line 260: part_path.exists(); line 266 when it does
InitPartExists(p) ==
  /\ Running(p, "part_exists")
  /\ LET id == proc[p].id IN
     IF Exists(fs, part_path(id))
     THEN /\ Respond(p, Resp("init", id, 200, "ok", 0, <<>>))
          /\ done' = done \ {id}
     ELSE /\ proc' = Goto(p, [proc[p] EXCEPT !.pc = "create_part"])
          /\ UNCHANGED <<last, done>>
  /\ UNCHANGED <<fs, arg, sent>>

\* lines 262-266: open_atomic(part_path, "wb"), O_CREAT | O_TRUNC
InitCreatePart(p) ==
  /\ Running(p, "create_part")
  /\ LET id == proc[p].id IN
     IF CanOpenForWrite(fs, part_path(id))
     THEN /\ fs' = OpenAtomicWrite(fs, part_path(id), File(<<>>))
          /\ Respond(p, Resp("init", id, 200, "ok", 0, <<>>))
          /\ done' = done \ {id}
     ELSE /\ Respond(p, Resp("init", id, 500, "Failed to create upload part file", 0, <<>>))
          /\ UNCHANGED <<fs, done>>
  /\ UNCHANGED <<arg, sent>>

\* the server process dies: every running handler is gone, the files stay
Crash ==
  /\ \E p \in Procs : ~Running(p, "idle")
  /\ proc' = [p \in Procs |-> Idle]
  /\ last' = Resp("crash", "", 0, "", 0, <<>>)
  /\ UNCHANGED <<fs, arg, sent, done>>

\* lines 276-289 of chunk: the id, the metadata record, the symlink check
ChunkBegin(p, uid, offset, data) ==
  /\ Running(p, "idle")
  /\ offset + Len(data) <= MaxFileLen
  /\ LET r == api_upload_chunk(fs, uid, offset, data).resp IN
     IF r.detail \in { "Invalid uploadId", "uploadId not found",
                       "Internal Server Error", "Corrupt upload state" }
     THEN last' = r /\ proc' = proc
     ELSE /\ proc' = Goto(p, [pc |-> "part_exists", id |-> r.id, offset |-> offset,
                              data |-> data, written |-> 0, fd |-> NoFile])
          /\ last' = last
  /\ UNCHANGED <<fs, arg, sent, done>>

\* line 294: part_path.exists()
ChunkPartExists(p) ==
  /\ Running(p, "part_exists")
  /\ proc' = Goto(p, [proc[p] EXCEPT !.pc =
                        IF Exists(fs, part_path(proc[p].id)) THEN "open"
                        ELSE "create_part"])
  /\ UNCHANGED <<fs, last, arg, sent, done>>

\* lines 296-297: open_atomic(part_path, "wb"), O_CREAT | O_TRUNC
ChunkCreatePart(p) ==
  /\ Running(p, "create_part")
  /\ LET id == proc[p].id IN
     IF CanOpenForWrite(fs, part_path(id))
     THEN /\ fs' = OpenAtomicWrite(fs, part_path(id), File(<<>>))
          /\ proc' = Goto(p, [proc[p] EXCEPT !.pc = "open"])
          /\ last' = last
     ELSE /\ Respond(p, Resp("chunk", id, 500, "Failed to write chunk", 0, <<>>))
          /\ fs' = fs
  /\ UNCHANGED <<arg, sent, done>>

\* lines 299-303: the offset check, part_path.open("r+b"), f.seek(offset)
ChunkOpen(p) ==
  /\ Running(p, "open")
  /\ LET id == proc[p].id IN
     IF \/ proc[p].offset < 0
        \/ ~Exists(fs, part_path(id))
        \/ StatNode(fs, part_path(id)).kind # "file"
     THEN Respond(p, Resp("chunk", id, 500, "Failed to write chunk", 0, <<>>))
     ELSE /\ proc' = Goto(p, [proc[p] EXCEPT !.pc = "write",
                                             !.fd = Realpath(fs, part_path(id))])
          /\ last' = last
  /\ UNCHANGED <<fs, arg, sent, done>>

\* lines 306-311: one block of the upload is written at the file position
ChunkWrite(p) ==
  /\ Running(p, "write")
  /\ proc[p].written < Len(proc[p].data)
  /\ LET fd == proc[p].fd
         pos == proc[p].offset + proc[p].written
         block == << proc[p].data[proc[p].written + 1] >>
     IN fs' = IF fd = NoFile THEN fs
              ELSE Put(fs, fd, [fs[fd] EXCEPT !.data = WriteAt(fs[fd].data, pos, block)])
  /\ proc' = Goto(p, [proc[p] EXCEPT !.written = proc[p].written + 1])
  /\ UNCHANGED <<last, arg, sent, done>>

\* lines 308-317: end of the upload, flush, fsync, tell
ChunkFinish(p) ==
  /\ Running(p, "write")
  /\ proc[p].written = Len(proc[p].data)
  /\ Respond(p, Resp("chunk", proc[p].id, 200, "ok",
                     Tell(proc[p].offset, proc[p].data), <<>>))
  /\ UNCHANGED <<fs, arg, sent, done>>

\* lines 335-358 of complete: every check before the rename
CompleteBegin(p, uid) ==
  /\ Running(p, "idle")
  /\ LET r == api_upload_complete(fs, uid, FALSE).resp
         meta == LoadJson(fs, meta_path(r.id))
         dest == resolve_safe_path(fs, DestString(meta, safe_filename(meta.filename)))
     IN IF r.code \in {400, 404} \/ r.detail = "Internal Server Error"
        THEN last' = r /\ proc' = proc
        ELSE /\ proc' = Goto(p, [pc |-> "replace", id |-> r.id, dest |-> dest.path,
                                 fd |-> NoFile])
             /\ last' = last
  /\ UNCHANGED <<fs, arg, sent, done>>

\* line 361: os.replace(part_path, dest)
CompleteReplace(p) ==
  /\ Running(p, "replace")
  /\ LET id == proc[p].id
         dest == proc[p].dest
     IN IF CanReplace(fs, part_path(id), dest)
        THEN /\ fs' = Replace(fs, part_path(id), dest)
             /\ proc' = MoveFd(Goto(p, [proc[p] EXCEPT !.pc = "unlink"]),
                               part_path(id), dest)
             /\ last' = last
        ELSE /\ Respond(p, Resp("complete", id, 500, "Failed to finalize upload", 0, <<>>))
             /\ fs' = fs
  /\ UNCHANGED <<arg, sent, done>>

\* lines 363-374: chmod, meta_path.unlink() (its failure is swallowed), 200
CompleteUnlink(p, unlinkFails) ==
  /\ Running(p, "unlink")
  /\ LET id == proc[p].id
         gone == ~unlinkFails /\ meta_path(id) \in DOMAIN fs
     IN /\ fs' = IF gone THEN Remove(fs, meta_path(id)) ELSE fs
        /\ last' = Resp("complete", id, 200, "ok", 0, proc[p].dest)
        /\ proc' = IF gone THEN MoveFd(Goto(p, Idle), meta_path(id), NoFile)
                   ELSE Goto(p, Idle)
        /\ done' = done \cup {id}
  /\ UNCHANGED <<arg, sent>>

-----------------------------------------------------------------------------
(* One session, its requests overlapping: an init, two chunk calls on      *)
(* disjoint byte ranges and a complete, each step by step                  *)

ChunkProcs == {"c1", "c2"}
\* the session is declared with two bytes; "c1" writes byte 1 at offset 0,
\* "c2" writes byte 2 at offset 1
RaceTotal == Small(2)
RaceOffset(p) == IF p = "c1" THEN 0 ELSE 1
RaceData(p) == IF p = "c1" THEN <<1>> ELSE <<2>>

InitRace == fs = BaseFs /\ NoSession

InitStepR ==
  \/ InitBegin("i", <<"a">>, <<"f">>, RaceTotal, <<"1">>, "1")
  \/ InitOpenMeta("i")
  \/ InitDumpMeta("i")
  \/ InitPartExists("i")
  \/ InitCreatePart("i")

ChunkStepR == \E p \in ChunkProcs :
  \/ ChunkBegin(p, <<"1">>, RaceOffset(p), RaceData(p))
  \/ ChunkPartExists(p)
  \/ ChunkCreatePart(p)
  \/ ChunkOpen(p)
  \/ ChunkWrite(p)
  \/ ChunkFinish(p)

CompleteStepR ==
  \/ CompleteBegin("f", <<"1">>)
  \/ CompleteReplace("f")
  \/ CompleteUnlink("f", FALSE)

NextRace == InitStepR \/ ChunkStepR \/ CompleteStepR

SpecRace == InitRace /\ [][NextRace]_vars

-----------------------------------------------------------------------------
(* One session whose chunk calls and complete overlap; init runs as one    *)
(* step, so the staging file is there whenever the metadata is             *)

InitFinal == fs = BaseFs /\ NoSession

InitStepF == InitCall(<<"a">>, <<"f">>, RaceTotal, <<"1">>, "1")

NextFinal == InitStepF \/ ChunkStepR \/ CompleteStepR

SpecFinal == InitFinal /\ [][NextFinal]_vars

-----------------------------------------------------------------------------
(* Init requests, step by step, in a server process that can die *)

InitCrash == Init

InitBeginK == \E r \in InitRequests, gen \in GenIds :
  InitBegin("i", r.path, r.filename, r.total, r.uid, gen)

NextCrash ==
  \/ InitBeginK
  \/ InitOpenMeta("i")
  \/ InitDumpMeta("i")
  \/ InitPartExists("i")
  \/ InitCreatePart("i")
  \/ Crash

SpecCrash == InitCrash /\ [][NextCrash]_vars

-----------------------------------------------------------------------------
(* Vocabulary of the properties *)

\* p is Root itself or a descendant of Root
InsideRoot(p) ==
  Len(p) >= Len(ROOT_DIR) /\ \A i \in 1..Len(ROOT_DIR) : p[i] = ROOT_DIR[i]

\* no ".", ".." or empty name in p, and no symbolic link on the way to p
IsCanonical(f, p) ==
  /\ \A i \in 1..Len(p) : p[i] \notin {<<>>, <<Dot>>, DotDot}
  /\ \A i \in 1..Len(p) : ~IsLink(f, SubSeq(p, 1, i))

\* where the client's string leads, taken relative to Root
CanonicalTarget(f, s) == Realpath(f, ROOT_DIR \o Parts(LStrip(s)))

\* the session's metadata record and its staging file are both there
SessionExists(f, id) ==
  /\ id \in UploadIds
  /\ HasJson(f, meta_path(id))
  /\ part_path(id) \in DOMAIN f /\ f[part_path(id)].kind = "file"

StagingSize(f, id) == Len(f[part_path(id)].data)
DeclaredTotal(f, id) == LoadJson(f, meta_path(id)).totalSize

-----------------------------------------------------------------------------
(* C1 *)

-----------------------------------------------------------------------------
(* C7 *)

NoSeparatorNoControl(n) == \A i \in 1..Len(n) : n[i] \notin {Sep, Ctl}

\* C7: safe_filename returns a name without path separator and without control
\* character, and sanitizing its result again returns the same name.
C7_SanitizeIdempotent ==
  last.op = "sanitize" =>
    /\ NoSeparatorNoControl(last.out)
    /\ safe_filename(last.out) = last.out

-----------------------------------------------------------------------------
(* C2 *)

\* a complete call on a session that exists was answered in this step
CompleteOnSession == last'.op = "complete" /\ SessionExists(fs, last'.id)

SizesAgree(f, id) == Small(StagingSize(f, id)) = DeclaredTotal(f, id)

\* C2 as stated: for an existing session complete succeeds if and only if the
\* staging size equals totalSize; with any other size it fails with
\* SizeMismatch and promotes nothing.
C2_CompleteIffSize ==
  [][ CompleteOnSession =>
        /\ last'.code = 200 <=> SizesAgree(fs, last'.id)
        /\ ~SizesAgree(fs, last'.id) =>
             last'.code = 400 /\ last'.detail = "Incomplete upload" /\ fs' = fs ]_vars

\* C2 amended: for an existing session complete succeeds only if the staging
\* size equals totalSize; with any other size (shorter or longer) it fails
\* with SizeMismatch and promotes nothing.
C2_CompleteOnlyIfSize ==
  [][ CompleteOnSession =>
        /\ last'.code = 200 => SizesAgree(fs, last'.id)
        /\ ~SizesAgree(fs, last'.id) =>
             last'.code = 400 /\ last'.detail = "Incomplete upload" /\ fs' = fs ]_vars

\* complete was refused on a staging file longer than the declared totalSize
C2_Witness ==
  /\ last.op = "complete" /\ last.detail = "Incomplete upload"
  /\ SessionExists(fs, last.id)
  /\ SizeGt(Small(StagingSize(fs, last.id)), DeclaredTotal(fs, last.id))

-----------------------------------------------------------------------------
(* C4 *)

\* C4: after a successful complete(id) the staging file is gone from its
\* staging path, and every later complete(id) of that session (also when the
\* metadata record could not be removed) fails with NotFound and leaves the
\* file system, the destination included, as it is.
C4_CompleteOnce ==
  [][ /\ (last'.op = "complete" /\ last'.code = 200)
           => part_path(last'.id) \notin DOMAIN fs'
      /\ (last'.op = "complete" /\ last'.id \in done)
           => last'.code = 404 /\ fs' = fs ]_vars

-----------------------------------------------------------------------------
(* C5 *)

\* destinationDir + filename, as the session's metadata names it
DestinationDir(f, id) == resolve_safe_path(f, LoadJson(f, meta_path(id)).path).path
DestinationPath(f, id) ==
  Append(DestinationDir(f, id), LoadJson(f, meta_path(id)).filename)

\* C5: when a symbolic link occupies the destination path and the staging
\* size equals totalSize, complete fails with RefusedOverwrite and changes
\* nothing: no rename, link, link target, staging file and metadata as before.
C5_RefuseLink ==
  [][ ( /\ CompleteOnSession
        /\ SizesAgree(fs, last'.id)
        /\ IsLink(fs, DestinationPath(fs, last'.id)) )
      => /\ last'.code = 400
         /\ last'.detail = "Refusing to overwrite symlink"
         /\ fs' = fs ]_vars

-----------------------------------------------------------------------------
(* C6 *)

\* C6: whatever file name init accepted, the path a successful complete
\* promotes the staging file to is a direct child of the session's
\* destinationDir.
C6_DirectChild ==
  [][ (CompleteOnSession /\ last'.code = 200)
      => /\ Parent(last'.out) = DestinationDir(fs, last'.id)
         /\ last'.out # DestinationDir(fs, last'.id)
         /\ last'.out \in DOMAIN fs' ]_vars

-----------------------------------------------------------------------------
(* C8 *)

ValidInitTarget(f, r) ==
  /\ safe_filename(r.filename) # <<>>
  /\ r.uid = <<>> \/ validate_upload_id(r.uid).ok
  /\ resolve_safe_path(f, r.path).ok /\ IsDir(f, resolve_safe_path(f, r.path).path)

\* C8: init rejects every totalSize <= 0 and every totalSize above 20 GiB
\* and then creates neither metadata nor staging file; it accepts exactly
\* 20 GiB when directory, file name and id are valid, and then both exist.
C8_TotalSizeRange ==
  [][ \A r \in InitRequests, gen \in GenIds :
        (last'.op = "init" /\ InitCall(r.path, r.filename, r.total, r.uid, gen)) =>
          /\ (SizeLeq(r.total, Small(0)) \/ SizeGt(r.total, [g |-> 20, b |-> 0]))
               => last'.code = 400 /\ fs' = fs
          /\ (r.total = [g |-> 20, b |-> 0] /\ ValidInitTarget(fs, r))
               => /\ last'.code = 200
                  /\ SessionExists(fs', last'.id)
                  /\ DeclaredTotal(fs', last'.id) = r.total ]_vars

\* a session of exactly 20 GiB was accepted
C8_Witness ==
  /\ last.op = "init" /\ last.code = 200
  /\ SessionExists(fs, last.id)
  /\ DeclaredTotal(fs, last.id) = [g |-> 20, b |-> 0]

-----------------------------------------------------------------------------
(* C3 *)

RECURSIVE ConcatByOffset(_)
\* the chunks' bytes one after the other, lowest offset first (equal offsets
\* in the order they were sent)
ConcatByOffset(s) ==
  IF s = <<>> THEN <<>>
  ELSE LET i == CHOOSE i \in 1..Len(s) : \A j \in 1..Len(s) :
                  \/ s[i].offset < s[j].offset
                  \/ (s[i].offset = s[j].offset /\ i <= j)
       IN s[i].data \o ConcatByOffset(SubSeq(s, 1, i - 1) \o SubSeq(s, i + 1, Len(s)))

\* the byte positions a chunk writes
Range(c) == (c.offset + 1)..(c.offset + Len(c.data))

\* no byte position is written twice and every position up to "size" is written
Tiles(s, size) ==
  /\ \A i, j \in 1..Len(s) : i # j => Range(s[i]) \cap Range(s[j]) = {}
  /\ \A k \in 1..size : \E i \in 1..Len(s) : k \in Range(s[i])

Promoted == last.op = "complete" /\ last.code = 200

\* C3 as stated: after a successful complete the destination file holds the
\* concatenation, in offset order, of all chunks sent for the session.
C3_DestIsConcat ==
  Promoted => fs[last.out].data = ConcatByOffset(sent[last.id])

\* C3 amended: the same, for chunk sequences whose byte ranges do not overlap
\* and leave no gap below the end of the file.
C3_DestIsConcatOfTiling ==
  (Promoted /\ Tiles(sent[last.id], Len(fs[last.out].data)))
    => fs[last.out].data = ConcatByOffset(sent[last.id])

\* two chunks sent in descending offset order were promoted
C3_Witness ==
  /\ Promoted
  /\ Len(sent[last.id]) = 2
  /\ sent[last.id][1].offset > sent[last.id][2].offset
  /\ Tiles(sent[last.id], Len(fs[last.out].data))
  /\ fs[last.out].data = <<1, 2>>

-----------------------------------------------------------------------------
(* C9 *)

ChunkWritten == last'.op = "chunk" /\ last'.code = 200

\* C9: the value a successful chunk call returns is the size of the staging
\* file after the write, and a status call right after reports that value.
C9_ReceivedIsSize ==
  [][ /\ ChunkWritten => last'.val = StagingSize(fs', last'.id)
      /\ (last.op = "chunk" /\ last.code = 200 /\ last'.op = "status"
            /\ last'.id = last.id /\ last'.code = 200)
           => last'.val = last.val ]_vars

-----------------------------------------------------------------------------
(* C10 *)

\* the chunk written in this step, and the one written in the step before
ThisChunk == sent'[last'.id][Len(sent'[last'.id])]
SameChunkAgain ==
  /\ last.op = "chunk" /\ last.code = 200 /\ ChunkWritten /\ last'.id = last.id
  /\ sent[last.id][Len(sent[last.id])] = ThisChunk

\* C10 as stated: writing the same bytes at the same offset a second time
\* leaves the staging file as the first write left it, and after a write at
\* offset o of length L the staging size is at least o+L.
C10_ChunkIdempotent ==
  [][ /\ SameChunkAgain => fs' = fs
      /\ ChunkWritten =>
           StagingSize(fs', last'.id) >= ThisChunk.offset + Len(ThisChunk.data) ]_vars

\* C10 amended: the size bound holds for chunks of at least one byte; a chunk
\* of no bytes leaves the staging file as it is.
C10_ChunkIdempotentNonEmpty ==
  [][ /\ SameChunkAgain => fs' = fs
      /\ (ChunkWritten /\ ThisChunk.data # <<>>) =>
           StagingSize(fs', last'.id) >= ThisChunk.offset + Len(ThisChunk.data)
      /\ (ChunkWritten /\ ThisChunk.data = <<>> /\ part_path(last'.id) \in DOMAIN fs)
           => fs' = fs ]_vars

\* the same non-empty chunk was written twice in a row, below the end of the file
C10_Witness ==
  /\ last.op = "chunk" /\ last.code = 200
  /\ Len(sent[last.id]) = 2
  /\ sent[last.id][1] = sent[last.id][2]
  /\ sent[last.id][1].data # <<>>
  /\ sent[last.id][1].offset > 0

-----------------------------------------------------------------------------
(* C11 *)

\* C11: the metadata record of an existing session is never rewritten: over
\* every init, chunk, status and complete call (an init that names the id of
\* an existing session included) it keeps its destination path, filename and
\* totalSize until it is removed.
C11_MetadataImmutable ==
  [][ \A id \in UploadIds :
        HasJson(fs, meta_path(id)) =>
          \/ meta_path(id) \notin DOMAIN fs'
          \/ /\ HasJson(fs', meta_path(id))
             /\ LoadJson(fs', meta_path(id)) = LoadJson(fs, meta_path(id)) ]_vars

-----------------------------------------------------------------------------
(* C16 *)

\* the session named by a raw uploadId has its metadata record
MetadataExists(f, uid) ==
  validate_upload_id(uid).ok /\ HasJson(f, meta_path(validate_upload_id(uid).id))

\* C16: a chunk call with a negative offset on an existing session is
\* answered as a validation failure (HTTP 400, "Invalid offset"), not as the
\* generic write failure, and it leaves the file system as it is: no staging
\* file is created or modified.
C16_NegativeOffsetRejected ==
  [][ \A r \in ChunkRequests :
        ( /\ last'.op = "chunk"
          /\ r.offset < 0
          /\ MetadataExists(fs, r.uid)
          /\ ChunkCall(r.uid, r.offset, r.data) )
        => /\ last'.code = 400
           /\ last'.detail = "Invalid offset"
           /\ fs' = fs ]_vars

-----------------------------------------------------------------------------
(* C17 *)

\* C17: a metadata record disappears only in a successful complete of its
\* session, whose staging file is by then at the destination, and the staging
\* file of one session is promoted at most once: no complete succeeds for an id
\* that was completed and not initialised again.
C17_RemovedMeansPromotedOnce ==
  [][ \A id \in UploadIds :
        /\ (meta_path(id) \in DOMAIN fs /\ meta_path(id) \notin DOMAIN fs')
             => /\ last'.op = "complete" /\ last'.id = id /\ last'.code = 200
                /\ part_path(id) \notin DOMAIN fs'
                /\ last'.out \in DOMAIN fs'
                /\ fs'[last'.out] = fs[part_path(id)]
        /\ (last'.op = "complete" /\ last'.id = id /\ last'.code = 200)
             => id \notin done ]_vars

-----------------------------------------------------------------------------
(* C19 *)

\* the outcomes NotFound, SizeMismatch, RefusedOverwrite and InvalidPath
RefusalDetails ==
  { "uploadId not found", "part file not found", "Incomplete upload",
    "Refusing to overwrite symlink", "Invalid path" }

\* the bytes that bring a staging file of n bytes up to "total"
MissingBytes(n, total) == [i \in 1..(total.b - n) |-> 1]

\* complete(id) as answered after the missing bytes were sent at the end of
\* the staging file
CompleteAfterMissing(f, id) ==
  LET n == StagingSize(f, id)
      c == api_upload_chunk(f, <<id>>, n, MissingBytes(n, DeclaredTotal(f, id)))
  IN api_upload_complete(c.fs, <<id>>, FALSE)

\* the staging file is short of a totalSize the chunk writer is driven to
ShortOfTotal(f, id) ==
  /\ SessionExists(f, id)
  /\ DeclaredTotal(f, id).g = 0 /\ DeclaredTotal(f, id).b <= MaxFileLen
  /\ StagingSize(f, id) < DeclaredTotal(f, id).b

\* the destination complete derives from the metadata can take the file: the
\* sanitized name is not empty, the path resolves inside Root to a name in an
\* existing directory, and no directory is there
DestinationUsable(f, id) ==
  LET meta == LoadJson(f, meta_path(id))
      filename == safe_filename(meta.filename)
      dest == resolve_safe_path(f, DestString(meta, filename))
  IN /\ filename # <<>>
     /\ dest.ok
     /\ IsDir(f, Parent(dest.path))
     /\ dest.path \notin DOMAIN f \/ f[dest.path].kind = "file"

\* a failed complete changes no file
RefusalChangesNothing ==
  (last'.op = "complete" /\ last'.detail \in RefusalDetails) =>
    last'.code \in {400, 404} /\ fs' = fs

\* complete was refused in this step for a staging file that is short
RefusedShort ==
  /\ last'.op = "complete" /\ last'.detail = "Incomplete upload"
  /\ ShortOfTotal(fs', last'.id)

\* C19 as stated: a complete call that fails with NotFound, SizeMismatch,
\* RefusedOverwrite or InvalidPath changes no file, and after a SizeMismatch
\* the client sends the missing bytes and the next complete succeeds.
C19_FailedCompleteRecovers ==
  [][ /\ RefusalChangesNothing
      /\ RefusedShort => CompleteAfterMissing(fs', last'.id).resp.code = 200 ]_vars

\* C19 amended: a complete call that fails with NotFound, SizeMismatch,
\* RefusedOverwrite or InvalidPath changes no file: metadata, staging bytes and
\* destination stay.  After a SizeMismatch on a short staging file, sending the
\* missing bytes makes the next complete pass the size check, and it succeeds
\* with totalSize bytes at the destination when the destination can take the
\* file.
C19_FailedCompleteKeepsSession ==
  [][ /\ RefusalChangesNothing
      /\ RefusedShort =>
           LET k == CompleteAfterMissing(fs', last'.id) IN
           /\ k.resp.detail # "Incomplete upload"
           /\ DestinationUsable(fs', last'.id) =>
                /\ k.resp.code = 200
                /\ Small(Len(k.fs[k.resp.out].data)) = DeclaredTotal(fs', last'.id) ]_vars

\* complete was refused for a staging file one byte short, the session is
\* kept and completes once the byte is sent
C19_Witness ==
  /\ last.op = "complete" /\ last.detail = "Incomplete upload"
  /\ ShortOfTotal(fs, last.id)
  /\ DestinationUsable(fs, last.id)
  /\ CompleteAfterMissing(fs, last.id).resp.code = 200

-----------------------------------------------------------------------------
(* C20 *)

\* C20: over init (a repeated init with the same uploadId included), chunk
\* and status calls the staging file of a session whose metadata record exists
\* stays in place and never gets shorter, and a status call changes no file.
C20_StagingNeverShrinks ==
  [][ /\ last'.op \in {"init", "chunk", "status"} =>
           \A id \in UploadIds :
             (HasJson(fs, meta_path(id)) /\ part_path(id) \in DOMAIN fs) =>
               /\ part_path(id) \in DOMAIN fs'
               /\ StagingSize(fs', id) >= StagingSize(fs, id)
      /\ last'.op = "status" => fs' = fs ]_vars

\* init was repeated for a session that had received bytes; they are kept
C20_Witness ==
  /\ last.op = "init" /\ last.code = 200
  /\ SessionExists(fs, last.id)
  /\ StagingSize(fs, last.id) > 0

-----------------------------------------------------------------------------
(* C18 *)

\* C18: for every setting of FILE_MANAGER_ROOT and FILE_MANAGER_DEFAULT_ROOT
\* the Root chosen at startup is not the file system's root "/".
C18_RootNeverSlash ==
  last.op = "root" => last.out # <<>>

-----------------------------------------------------------------------------
(* C13 *)

\* the entry at path p is the same in f and g: absent in both, or equal
SameEntry(f, g, p) ==
  /\ p \in DOMAIN f <=> p \in DOMAIN g
  /\ p \in DOMAIN f => g[p] = f[p]

\* C13: a call on one session leaves the metadata record and the staging file
\* of every other existing session as they are, whatever destination the
\* first session declared (one inside the staging directory included).
C13_SessionsDoNotInterfere ==
  [][ \A a, b \in UploadIds :
        (a # b /\ last'.id = a /\ HasJson(fs, meta_path(b))) =>
          /\ SameEntry(fs, fs', meta_path(b))
          /\ SameEntry(fs, fs', part_path(b)) ]_vars

-----------------------------------------------------------------------------
(* C12 *)

\* nothing of the session is on disk, or all of it
AllOrNothing(f, id) ==
  \/ meta_path(id) \notin DOMAIN f /\ part_path(id) \notin DOMAIN f
  \/ SessionExists(f, id)

\* C12: when the server process dies at any step of init or right after it,
\* what is left on disk for each id is nothing at all or a whole session: the
\* complete metadata record and the staging file.
C12_CrashLeavesAllOrNothing ==
  (last.op = "crash" /\ \A p \in Procs : Running(p, "idle"))
    => \A id \in UploadIds : AllOrNothing(fs, id)

-----------------------------------------------------------------------------
(* C14 *)

\* the step is one of handler p's own: its position or its write count moves
StepOf(p) ==
  \/ proc'[p].pc # proc[p].pc
  \/ proc[p].pc = "write" /\ proc'[p].written # proc[p].written

\* the byte positions the running chunk call p has written so far
WrittenBy(p) == (proc[p].offset + 1)..(proc[p].offset + proc[p].written)

\* the file p writes to holds, in f, every byte p has written so far
HoldsWritten(f, p) ==
  \A k \in WrittenBy(p) :
    /\ proc[p].fd \in DOMAIN f
    /\ k <= Len(f[proc[p].fd].data)
    /\ f[proc[p].fd].data[k] = proc[p].data[k - proc[p].offset]

-----------------------------------------------------------------------------
(* C15 *)

\* complete has succeeded for id and the session is gone: a chunk call of id
\* that still takes steps began before that
Finalized(id) == id \in done /\ meta_path(id) \notin DOMAIN fs

\* C15: while chunk and complete requests of a session overlap, the
\* destination holds nothing or a promoted file of exactly totalSize bytes,
\* and once complete has succeeded no step of a chunk call that is still
\* running changes the destination file or creates a staging file again.
C15_DestinationNeverPartial ==
  [][ /\ DEST \in DOMAIN fs' => Small(Len(fs'[DEST].data)) = RaceTotal
      /\ \A c \in ChunkProcs :
           (StepOf(c) /\ proc[c].pc # "idle" /\ Finalized(proc[c].id)) =>
             /\ SameEntry(fs, fs', DEST)
             /\ SameEntry(fs, fs', part_path(proc[c].id)) ]_vars

====
